---- MODULE Spec2Model ----
(***************************************************************************)
(* Career-Parser: the batch loop of main.py, the strategy dispatcher and   *)
(* the extractors of scraper.py, and the pure functions behind the job     *)
(* cards (keyword matching, validation, identifier derivation).            *)
(*                                                                         *)
(* Python strings are sequences of one-character strings, so that          *)
(* substring tests, case conversion, URL parsing and regular-expression    *)
(* matching are computed character by character.                           *)
(***************************************************************************)
EXTENDS Integers, Sequences, FiniteSets, TLC

VARIABLES
    targets,              \* main: the Targets returned by Jira
    pc,                   \* position of main / process_company
    idx,                  \* number of Targets whose loop body has completed
    driver_open,          \* the persistent browser session is open
    quits,                \* number of driver.quit() calls
    current_url,          \* driver.current_url as process_company reads it
    on_listing,           \* the session shows the listing page of the current Target
    page_gets,            \* number of driver.get() calls that loaded a page
    SELENIUM_PAGE_LOADS,  \* scraper.SELENIUM_PAGE_LOADS
    invoked,              \* extractors called by process_company for the current Target
    all_job_details,      \* process_company: the raw records of the current Target
    all_found_jobs,       \* main: the JobCards collected so far
    error,                \* the exception in flight, and where it was raised
    handled,              \* per Target begun: what process_company returned or raised
    gh_wait,              \* process_company: outcome of the Greenhouse DOM wait
    ext,                  \* the running extractor's local state
    args,                 \* pure-function harness: the call's arguments
    ret                   \* pure-function harness: the call's result

vars == <<targets, pc, idx, driver_open, quits, current_url, on_listing, page_gets,
          SELENIUM_PAGE_LOADS, invoked, all_job_details, all_found_jobs, error,
          handled, gh_wait, ext, args, ret>>

mainVars == <<targets, pc, idx, driver_open, quits, current_url, on_listing, page_gets,
              SELENIUM_PAGE_LOADS, invoked, all_job_details, all_found_jobs, error,
              handled, gh_wait, ext>>

----------------------------------------------------------------------------
(* Bounds of the model *)

MaxTargets == 2
MaxJobs == 2
MaxKeywords == 2
MaxTextLen == 3
MaxParams == 2

----------------------------------------------------------------------------
(* Python values *)

\* None: a value that is no string (no string has a five-character element).
None == <<"None">>

\* bool(x) of a string or None
Truthy(x) == x # None /\ x # <<>>

UpperCase == <<"A","B","C","D","E","F","G","H","I","J","K","L","M","N","O","P","Q","R","S","T","U","V","W","X","Y","Z">>
LowerCase == <<"a","b","c","d","e","f","g","h","i","j","k","l","m","n","o","p","q","r","s","t","u","v","w","x","y","z">>
Digits == {"0","1","2","3","4","5","6","7","8","9"}

Range(s) == {s[i] : i \in DOMAIN s}

IsUpper(c) == c \in Range(UpperCase)
IsLower(c) == c \in Range(LowerCase)
IsAlpha(c) == IsUpper(c) \/ IsLower(c)
IsDigit(c) == c \in Digits

IndexIn(c, s) == CHOOSE i \in DOMAIN s : s[i] = c

\* str.lower()
LowerChar(c) == IF IsUpper(c) THEN LowerCase[IndexIn(c, UpperCase)] ELSE c
Lower(s) == [i \in DOMAIN s |-> LowerChar(s[i])]

\* str.upper()
UpperChar(c) == IF IsLower(c) THEN UpperCase[IndexIn(c, LowerCase)] ELSE c
Upper(s) == [i \in DOMAIN s |-> UpperChar(s[i])]

\* s[i:] with a 1-based i
Drop(s, i) == SubSeq(s, i, Len(s))

\* s.startswith(sub, i - 1)
StartsAt(s, sub, i) ==
    /\ i + Len(sub) - 1 <= Len(s)
    /\ \A k \in 1..Len(sub) : s[i + k - 1] = sub[k]

\* s.find(sub, i - 1) + 1: the first position >= i where sub occurs, 0 if none
RECURSIVE Find(_, _, _)
Find(s, sub, i) ==
    IF i + Len(sub) - 1 > Len(s) THEN 0
    ELSE IF StartsAt(s, sub, i) THEN i
    ELSE Find(s, sub, i + 1)

\* sub in s
Contains(s, sub) == Find(s, sub, 1) # 0

\* s.replace(old, "") for a one-character old
RemoveChar(s, old) == SelectSeq(s, LAMBDA c : c # old)

\* bounded sequences over a set
SeqUpTo(S, n) == UNION {[1..k -> S] : k \in 0..n}

----------------------------------------------------------------------------
(* String literals of the source *)

STR_NA == <<"N","/","A">>
TitleNotFound == <<"T","i","t","l","e"," ","N","o","t"," ","F","o","u","n","d">>
LocationNotFound == <<"L","o","c","a","t","i","o","n"," ","N","o","t"," ","F","o","u","n","d">>
DetailsExtractionFailed == <<"D","e","t","a","i","l","s"," ","E","x","t","r","a","c","t","i","o","n"," ","F","a","i","l","e","d">>

----------------------------------------------------------------------------
(* scraper.check_job_for_keywords *)

\* a faulty variant: matches case-sensitively on the keyword side
check_job_for_keywords_CaseSensitive(text_to_check, keywords) ==
    IF ~Truthy(text_to_check) THEN <<None, <<>>>>
    ELSE LET text_lower == Lower(text_to_check)
             matched == SelectSeq(keywords, LAMBDA kw : Contains(text_lower, kw))
         IN  <<IF matched # <<>> THEN text_lower ELSE None, matched>>

check_job_for_keywords(text_to_check, keywords) ==
    IF ~Truthy(text_to_check) THEN <<None, <<>>>>
    ELSE LET text_lower == Lower(text_to_check)
             matched == SelectSeq(keywords, LAMBDA kw : Contains(text_lower, Lower(kw)))
         IN  <<IF matched # <<>> THEN text_lower ELSE None, matched>>

----------------------------------------------------------------------------
(* urllib.parse as format_job_card uses it *)

\* s.split(c, 1)
SplitOnce(s, c) ==
    LET i == Find(s, <<c>>, 1)
    IN  IF i = 0 THEN <<s>> ELSE <<SubSeq(s, 1, i - 1), Drop(s, i + 1)>>

\* s.split(c)
RECURSIVE Split(_, _)
Split(s, c) ==
    LET i == Find(s, <<c>>, 1)
    IN  IF i = 0 THEN <<s>> ELSE <<SubSeq(s, 1, i - 1)>> \o Split(Drop(s, i + 1), c)

SchemeChars == Range(UpperCase) \cup Range(LowerCase) \cup Digits \cup {"+", "-", "."}

\* the first position >= i of s holding a character of set, Len(s) + 1 if none
RECURSIVE FindAny(_, _, _)
FindAny(s, set, i) ==
    IF i > Len(s) THEN Len(s) + 1
    ELSE IF s[i] \in set THEN i
    ELSE FindAny(s, set, i + 1)

\* urlparse(link): scheme, netloc, path, query, fragment. The links of the model
\* hold no ';', no brackets and no control characters, so there are no params
\* and urlparse raises nothing.
urlparse(url) ==
    LET i == Find(url, <<":">>, 1)
        hasScheme == /\ i > 1
                     /\ IsAlpha(url[1])
                     /\ \A k \in 1..(i - 1) : url[k] \in SchemeChars
        u1 == IF hasScheme THEN Drop(url, i + 1) ELSE url
        hasNetloc == StartsAt(u1, <<"/", "/">>, 1)
        delim == FindAny(u1, {"/", "?", "#"}, 3)
        u2 == IF hasNetloc THEN Drop(u1, delim) ELSE u1
        f == SplitOnce(u2, "#")
        q == SplitOnce(f[1], "?")
    IN  [scheme   |-> IF hasScheme THEN Lower(SubSeq(url, 1, i - 1)) ELSE <<>>,
         netloc   |-> IF hasNetloc THEN SubSeq(u1, 3, delim - 1) ELSE <<>>,
         path     |-> q[1],
         query    |-> IF Len(q) = 2 THEN q[2] ELSE <<>>,
         fragment |-> IF Len(f) = 2 THEN f[2] ELSE <<>>]

\* s.replace('+', ' ')
PlusToSpace(s) == [i \in DOMAIN s |-> IF s[i] = "+" THEN " " ELSE s[i]]

\* the %XX escapes unquote decodes, for the characters a link of the model can hold
Escapes == { <<"2", "F", "/">>, <<"3", "D", "=">>, <<"2", "6", "&">>,
             <<"2", "3", "#">>, <<"3", "F", "?">>, <<"2", "0", " ">> }

\* urllib.parse.unquote
RECURSIVE unquote(_)
unquote(s) ==
    IF s = <<>> THEN <<>>
    ELSE IF /\ s[1] = "%"
            /\ Len(s) >= 3
            /\ \E e \in Escapes : e[1] = s[2] /\ e[2] = s[3]
         THEN LET e == CHOOSE e \in Escapes : e[1] = s[2] /\ e[2] = s[3]
              IN  <<e[3]>> \o unquote(Drop(s, 4))
         ELSE <<s[1]>> \o unquote(Drop(s, 2))

\* parse_qsl(query): the (name, value) pairs, blank values dropped
RECURSIVE parse_qsl_fields(_)
parse_qsl_fields(query_args) ==
    IF query_args = <<>> THEN <<>>
    ELSE LET name_value == Head(query_args)
             nv == SplitOnce(name_value, "=")
             rest == parse_qsl_fields(Tail(query_args))
         IN  IF name_value = <<>> THEN rest
             ELSE IF Len(nv) # 2 THEN rest
             ELSE IF Len(nv[2]) > 0
                  THEN <<[name  |-> unquote(PlusToSpace(nv[1])),
                          value |-> unquote(PlusToSpace(nv[2]))]>> \o rest
                  ELSE rest

parse_qsl(qs) == IF qs = <<>> THEN <<>> ELSE parse_qsl_fields(Split(qs, "&"))

\* param in parse_qs(query)
InQuery(query_params, param) == \E k \in DOMAIN query_params : query_params[k].name = param

\* parse_qs(query)[param][0]
FirstValue(query_params, param) ==
    LET k == CHOOSE k \in DOMAIN query_params :
                 /\ query_params[k].name = param
                 /\ \A j \in 1..(k - 1) : query_params[j].name # param
    IN  query_params[k].value

----------------------------------------------------------------------------
(* The regular expressions of format_job_card *)

\* \d{4,}
MinPathDigits == 4
\* [a-zA-Z0-9_-]{6,}
MinTailRun == 6

\* [a-zA-Z0-9_-]
IsIdChar(c) == IsAlpha(c) \/ IsDigit(c) \/ c \in {"_", "-"}

\* the last position of the longest run of characters of class that starts at i
\* (i - 1 when s[i] is not of the class)
RECURSIVE RunEnd(_, _, _)
RunEnd(s, i, class) ==
    IF i <= Len(s) /\ s[i] \in class THEN RunEnd(s, i + 1, class) ELSE i - 1

\* re.search(r'<start>(<class>{min,})/?$', s) tried at position p: the group, or None.
\* No character of class is '/' and the pattern ends at the end of the string, so
\* only the longest run can match.
MatchTailAt(s, p, start, class, min) ==
    LET e == RunEnd(s, p + 1, class)
    IN  IF /\ s[p] \in start
           /\ e - p >= min
           /\ (e = Len(s) \/ (e + 1 = Len(s) /\ s[e + 1] = "/"))
        THEN SubSeq(s, p + 1, e)
        ELSE None

\* re.search scans the start positions from the left
RECURSIVE SearchTail(_, _, _, _, _)
SearchTail(s, p, start, class, min) ==
    IF p > Len(s) THEN None
    ELSE LET m == MatchTailAt(s, p, start, class, min)
         IN  IF m # None THEN m ELSE SearchTail(s, p + 1, start, class, min)

\* re.search(r'/(\d{4,})/?$', path)
path_match(path) == SearchTail(path, 1, {"/"}, Digits, MinPathDigits)

\* re.search(r'[=/]([a-zA-Z0-9_-]{6,})/?$', link)
job_id_match(link) ==
    SearchTail(link, 1, {"=", "/"}, {c \in Range(link) : IsIdChar(c)}, MinTailRun)

----------------------------------------------------------------------------
(* scraper.format_job_card *)

common_id_params == << <<"j","o","b","I","d">>, <<"g","h","_","j","i","d">>,
                       <<"r","e","q","i","d">>, <<"i","d">>,
                       <<"j","o","b","I","D">>, <<"p","_","j","i","d">> >>

\* for param in common_id_params: if param in query_params: ...; break
RECURSIVE IdFromParams(_, _)
IdFromParams(query_params, params) ==
    IF params = <<>> THEN STR_NA
    ELSE IF InQuery(query_params, Head(params))
         THEN FirstValue(query_params, Head(params))
         ELSE IdFromParams(query_params, Tail(params))

\* a faulty variant: looks at the path before the query parameters
ExtractId_PathFirst(link) ==
    LET parsed_url == urlparse(link)
        id1 == IF path_match(parsed_url.path) # None
               THEN path_match(parsed_url.path) ELSE STR_NA
        id2 == IF id1 = STR_NA
               THEN IdFromParams(parse_qsl(parsed_url.query), common_id_params)
               ELSE id1
        id3 == IF id2 = STR_NA /\ job_id_match(link) # None
               THEN job_id_match(link) ELSE id2
    IN  id3

\* lines 41-59: the id before the company prefix
ExtractId(link) ==
    LET parsed_url == urlparse(link)
        query_params == parse_qsl(parsed_url.query)
        id1 == IdFromParams(query_params, common_id_params)
        id2 == IF id1 = STR_NA /\ path_match(parsed_url.path) # None
               THEN path_match(parsed_url.path) ELSE id1
        id3 == IF id2 = STR_NA /\ job_id_match(link) # None
               THEN job_id_match(link) ELSE id2
    IN  id3

\* company_name.upper().replace(' ', '')
CompanyPrefix(company_name) == RemoveChar(Upper(company_name), " ")

\* a faulty variant: prefixes the sentinel too
WithPrefix_Always(company_name, unique_job_id) ==
    CompanyPrefix(company_name) \o <<"-">> \o unique_job_id

\* lines 64-65
WithPrefix(company_name, unique_job_id) ==
    IF unique_job_id # STR_NA
    THEN CompanyPrefix(company_name) \o <<"-">> \o unique_job_id
    ELSE unique_job_id

\* a details value that is no dict
NotADict == [not_a_dict |-> TRUE]

\* details.get(key, default)
DictGet(d, key, default) == IF key \in DOMAIN d THEN d[key] ELSE default

format_job_card(details, link, company_name, matched_keywords) ==
    LET unique_job_id == WithPrefix(company_name, ExtractId(link))
    IN  IF "not_a_dict" \in DOMAIN details
        THEN [Company |-> company_name, Job_Title |-> DetailsExtractionFailed,
              Location |-> STR_NA, Matched_Keywords |-> matched_keywords,
              Link_to_Job |-> link, Unique_Job_ID |-> unique_job_id]
        ELSE [Company |-> company_name,
              Job_Title |-> DictGet(details, "job_title", TitleNotFound),
              Location |-> DictGet(details, "location", LocationNotFound),
              Matched_Keywords |-> matched_keywords,
              Link_to_Job |-> link, Unique_Job_ID |-> unique_job_id]

----------------------------------------------------------------------------
(* scraper.validate_and_format_jobs *)

\* f"{job_data['title']} {job_data['location']} {job_data['description']}"
FullText(job_data) ==
    job_data.title \o <<" ">> \o job_data.location \o <<" ">> \o job_data.description

\* a faulty variant: appends a card whether or not a keyword matched
ValidateOne_NoFilter(job_data, company) ==
    LET r == check_job_for_keywords(FullText(job_data), company.keywords)
    IN  <<format_job_card([job_title |-> job_data.title, location |-> job_data.location],
                          job_data.link, company.company_name, r[2])>>

\* the loop body: the cards one record adds to found_jobs
ValidateOne(job_data, company) ==
    LET r == check_job_for_keywords(FullText(job_data), company.keywords)
        validated_text == r[1]
        matched_keywords == r[2]
    IN  IF Truthy(validated_text)
        THEN <<format_job_card([job_title |-> job_data.title, location |-> job_data.location],
                               job_data.link, company.company_name, matched_keywords)>>
        ELSE <<>>

RECURSIVE validate_and_format_jobs(_, _)
validate_and_format_jobs(all_details, company) ==
    IF all_details = <<>> THEN <<>>
    ELSE ValidateOne(Head(all_details), company)
         \o validate_and_format_jobs(Tail(all_details), company)

----------------------------------------------------------------------------
(* Inputs of the pure functions *)

KW_Engineer == <<"E","n","g","i","n","e","e","r">>
KW_Nurse == <<"N","u","r","s","e">>
KW_Python == <<"P","y","t","h","o","n">>
TXT_SoftwareEngineerWanted == <<"s","o","f","t","w","a","r","e"," ","E","N","G","I","N","E","E","R"," ","w","a","n","t","e","d">>
TXT_SeniorPythonDeveloper == <<"S","e","n","i","o","r"," ","P","y","t","h","o","n"," ","D","e","v","e","l","o","p","e","r">>
CO_AcmeCorp == <<"A","c","m","e"," ","C","o","r","p">>
CO_AandB == <<"A","&","B"," ","I","n","c",".">>
LOC_Reston == <<"R","e","s","t","o","n">>

BaseUrl == <<"h","t","t","p","s",":","/","/","h">>
LINK_gh == <<"h","t","t","p","s",":","/","/","h","/","j","o","b","s","?","g","h","_","j","i","d","=","4","0","0","1">>
LINK_paylocity == <<"h","t","t","p","s",":","/","/","h","/","J","o","b","s","/","D","e","t","a","i","l","s","/","1","2","3","4","5","6">>
LINK_careers == <<"h","t","t","p","s",":","/","/","h","/","c","a","r","e","e","r","s">>

MatchAlphabet == {"e", "E", "n"}
TextPool == SeqUpTo(MatchAlphabet, MaxTextLen)
                \cup {TXT_SoftwareEngineerWanted, TXT_SeniorPythonDeveloper}
KeywordPool == {<<>>, <<"e">>, <<"E">>, <<"n", "E">>, KW_Engineer, KW_Nurse, KW_Python}
KeywordLists == SeqUpTo(KeywordPool, MaxKeywords)

RecordPool ==
    { [title |-> TXT_SeniorPythonDeveloper, location |-> LOC_Reston,
       description |-> <<"e">>, link |-> LINK_paylocity],
      [title |-> KW_Nurse, location |-> <<>>, description |-> <<"E", "n">>,
       link |-> LINK_gh],
      [title |-> <<>>, location |-> <<>>, description |-> <<>>, link |-> LINK_careers] }

PathPool ==
    { <<>>,
      <<"/","1","2","3">>,
      <<"/","1","2","3","4">>,
      <<"/","1","2","3","4","/">>,
      <<"/","j","o","1","2","3","4">>,
      <<"/","J","o","b","s","/","D","e","t","a","i","l","s","/","1","2","3","4">>,
      <<"/","J","o","b","s","/","D","e","t","a","i","l","s","/","1","2","3">>,
      <<"/","a","b","-","c","_","1","/">>,
      <<"/","a","b","c","d","e">> }

\* a query field as written in the link: name[=raw]; decoded is raw percent-decoded
ParamPool ==
    { [name |-> <<"j","o","b","I","d">>, eq |-> TRUE, raw |-> <<"1","2">>, decoded |-> <<"1","2">>],
      [name |-> <<"j","o","b","I","d">>, eq |-> TRUE, raw |-> <<>>, decoded |-> <<>>],
      [name |-> <<"g","h","_","j","i","d">>, eq |-> TRUE, raw |-> <<"1","2","3","4">>, decoded |-> <<"1","2","3","4">>],
      [name |-> <<"r","e","q","i","d">>, eq |-> TRUE, raw |-> <<"N","%","2","F","A">>, decoded |-> <<"N","/","A">>],
      [name |-> <<"i","d">>, eq |-> TRUE, raw |-> <<"7">>, decoded |-> <<"7">>],
      [name |-> <<"i","d">>, eq |-> FALSE, raw |-> <<>>, decoded |-> <<>>],
      [name |-> <<"j","o","b","I","D">>, eq |-> TRUE, raw |-> <<"5">>, decoded |-> <<"5">>],
      [name |-> <<"p","_","j","i","d">>, eq |-> TRUE, raw |-> <<"9">>, decoded |-> <<"9">>],
      [name |-> <<"x">>, eq |-> TRUE, raw |-> <<"a","b","c","d","e","f">>, decoded |-> <<"a","b","c","d","e","f">>] }

FragmentPool == { <<>>, <<"#","j","o","b","I","d","=","9","9","9","9","9","9">> }

CompanyPool == {CO_AcmeCorp, CO_AandB}

DetailsPool ==
    { [job_title |-> TXT_SeniorPythonDeveloper, location |-> LOC_Reston],
      [location |-> LOC_Reston],
      NotADict }

RenderParam(p) == p.name \o (IF p.eq THEN <<"=">> \o p.raw ELSE <<>>)

RECURSIVE JoinParams(_)
JoinParams(params) ==
    IF Len(params) = 1 THEN RenderParam(params[1])
    ELSE RenderParam(Head(params)) \o <<"&">> \o JoinParams(Tail(params))

RenderQuery(params) == IF params = <<>> THEN <<>> ELSE <<"?">> \o JoinParams(params)

RenderLink(path, params, fragment) == BaseUrl \o path \o RenderQuery(params) \o fragment

----------------------------------------------------------------------------
(* The browser-driven part is idle while a pure function is exercised *)

NoError == [origin |-> "none", type |-> "none"]
Idle == [kind |-> "idle"]

MainIdle ==
    /\ targets = <<>>
    /\ pc = "harness"
    /\ idx = 0
    /\ driver_open = FALSE
    /\ quits = 0
    /\ current_url = <<>>
    /\ on_listing = FALSE
    /\ page_gets = 0
    /\ SELENIUM_PAGE_LOADS = 0
    /\ invoked = <<>>
    /\ all_job_details = <<>>
    /\ all_found_jobs = <<>>
    /\ error = NoError
    /\ handled = <<>>
    /\ gh_wait = "not_run"
    /\ ext = Idle

Pending == [done |-> FALSE]

----------------------------------------------------------------------------
(* Keyword matching and validation on bounded inputs *)

InitMatch ==
    /\ MainIdle
    /\ ret = Pending
    /\ \/ \E text \in TextPool, keywords \in KeywordLists :
              args = [fn |-> "check_job_for_keywords", text |-> text, keywords |-> keywords]
       \/ \E jobs \in SeqUpTo(RecordPool, MaxJobs), keywords \in KeywordLists :
              args = [fn |-> "validate_and_format_jobs", all_job_details |-> jobs,
                      company |-> [company_name |-> CO_AcmeCorp, keywords |-> keywords]]

CallCheckJobForKeywords ==
    /\ ~ret.done
    /\ args.fn = "check_job_for_keywords"
    /\ ret' = [done |-> TRUE, value |-> check_job_for_keywords(args.text, args.keywords)]
    /\ UNCHANGED <<mainVars, args>>

CallValidateAndFormatJobs ==
    /\ ~ret.done
    /\ args.fn = "validate_and_format_jobs"
    /\ ret' = [done |-> TRUE,
               value |-> validate_and_format_jobs(args.all_job_details, args.company)]
    /\ UNCHANGED <<mainVars, args>>

NextMatch == CallCheckJobForKeywords \/ CallValidateAndFormatJobs

SpecMatch == InitMatch /\ [][NextMatch]_vars

----------------------------------------------------------------------------
(* Identifier derivation on bounded inputs *)

InitId ==
    /\ MainIdle
    /\ ret = Pending
    /\ \/ \E path \in PathPool, fragment \in FragmentPool, company_name \in CompanyPool,
             params \in SeqUpTo(ParamPool, MaxParams) :
              args = [fn |-> "format_job_card", path |-> path, params |-> params,
                      fragment |-> fragment,
                      link |-> RenderLink(path, params, fragment),
                      company_name |-> company_name,
                      details |-> [job_title |-> TXT_SeniorPythonDeveloper,
                                   location |-> LOC_Reston]]
       \/ \E path \in {<<>>, <<"/","1","2","3","4">>}, details \in DetailsPool :
              args = [fn |-> "format_job_card", path |-> path, params |-> <<>>,
                      fragment |-> <<>>, link |-> RenderLink(path, <<>>, <<>>),
                      company_name |-> CO_AcmeCorp, details |-> details]

CallFormatJobCard ==
    /\ ~ret.done
    /\ args.fn = "format_job_card"
    /\ ret' = [done |-> TRUE,
               value |-> format_job_card(args.details, args.link, args.company_name,
                                         <<KW_Python>>)]
    /\ UNCHANGED <<mainVars, args>>

NextId == CallFormatJobCard

SpecId == InitId /\ [][NextId]_vars

----------------------------------------------------------------------------
(* Vocabulary of the properties *)

\* a occurs in b as a contiguous run of characters
IsSubstring(a, b) == \E i \in 0..(Len(b) - Len(a)) : SubSeq(b, i + 1, i + Len(a)) = a

\* the keyword matches the text, case-insensitively
KeywordMatches(kw, text) == IsSubstring(Lower(kw), Lower(text))

\* the j-th smallest element of a set of indices
NthOf(I, j) == CHOOSE k \in I : Cardinality({m \in I : m <= k}) = j

\* out lists exactly the elements of seq at the indices I, in their order
IsSelection(out, seq, I) ==
    /\ Len(out) = Cardinality(I)
    /\ \A j \in 1..Len(out) : out[j] = seq[NthOf(I, j)]

CheckDone == ret.done /\ args.fn = "check_job_for_keywords"
ValidateDone == ret.done /\ args.fn = "validate_and_format_jobs"
CardDone == ret.done /\ args.fn = "format_job_card"

\* the records of a validate call that at least one keyword of the Target matches
MatchingJobs ==
    {k \in DOMAIN args.all_job_details :
        \E j \in DOMAIN args.company.keywords :
            KeywordMatches(args.company.keywords[j], FullText(args.all_job_details[k]))}

\* C5: validate_and_format_jobs emits a JobCard for a record if and only if at least
\* one keyword of the Target matches the record's title, location and description:
\* the cards are those of the matching records, in order, so the output is never
\* longer than the input and every card has a non-empty matched_keywords list.
C5_ValidatorEmitsIffMatch ==
    ValidateDone =>
        /\ Len(ret.value) <= Len(args.all_job_details)
        /\ Len(ret.value) = Cardinality(MatchingJobs)
        /\ \A j \in 1..Len(ret.value) :
              /\ j <= Cardinality(MatchingJobs)
              /\ ret.value[j].Link_to_Job = args.all_job_details[NthOf(MatchingJobs, j)].link
              /\ ret.value[j].Job_Title = args.all_job_details[NthOf(MatchingJobs, j)].title
              /\ ret.value[j].Matched_Keywords # <<>>

\* C5 witness: two records were validated, the first matched no keyword and was
\* dropped, the second matched and became the only card.
C5_Witness ==
    /\ ValidateDone
    /\ Len(args.all_job_details) = 2
    /\ MatchingJobs = {2}
    /\ Len(ret.value) = 1
    /\ ret.value[1].Matched_Keywords = <<KW_Python>>

\* the keywords of a check call that match its text
MatchingKeywords ==
    {k \in DOMAIN args.keywords : KeywordMatches(args.keywords[k], args.text)}

----------------------------------------------------------------------------
(* The identifier rules, read off the parts the link was written from *)

\* the company name with every non-alphanumeric character removed, upper-cased
SanitizedCompanyName(name) == Upper(SelectSeq(name, LAMBDA c : IsAlpha(c) \/ IsDigit(c)))

IsKnownParam(p) == p.eq /\ \E i \in DOMAIN common_id_params : common_id_params[i] = p.name

\* the first field of the query, in the priority order of the names, among the
\* fields satisfying Counts
PriorityField(Counts(_)) ==
    LET rank == CHOOSE i \in DOMAIN common_id_params :
                    /\ \E k \in DOMAIN args.params :
                          Counts(args.params[k]) /\ args.params[k].name = common_id_params[i]
                    /\ \A i2 \in 1..(i - 1) : \A k \in DOMAIN args.params :
                          ~(Counts(args.params[k]) /\ args.params[k].name = common_id_params[i2])
        first == CHOOSE k \in DOMAIN args.params :
                    /\ Counts(args.params[k]) /\ args.params[k].name = common_id_params[rank]
                    /\ \A k2 \in 1..(k - 1) :
                          ~(Counts(args.params[k2]) /\ args.params[k2].name = common_id_params[rank])
    IN  args.params[first]

HasKnownParam == \E k \in DOMAIN args.params : IsKnownParam(args.params[k])

HasValue(p) == IsKnownParam(p) /\ p.raw # <<>>

\* rule "query parameter": a known parameter carries a non-empty value, and the
\* value of the one first in priority is not the sentinel
QueryRuleMatches ==
    /\ \E k \in DOMAIN args.params : HasValue(args.params[k])
    /\ PriorityField(HasValue).decoded # STR_NA

QueryRuleId == PriorityField(HasValue).decoded

StripSlash(s) == IF s # <<>> /\ s[Len(s)] = "/" THEN SubSeq(s, 1, Len(s) - 1) ELSE s

\* the positions k of s after which s (less one final '/') is a run of at least
\* min characters of class, s[k] being one of starts
TailStarts(s, starts, class, min) ==
    LET s0 == StripSlash(s)
    IN  {k \in 1..Len(s0) :
            /\ s0[k] \in starts
            /\ Len(s0) - k >= min
            /\ \A j \in (k + 1)..Len(s0) : s0[j] \in class}

TailRun(s, starts, class, min) ==
    LET s0 == StripSlash(s)
        k == CHOOSE k \in TailStarts(s, starts, class, min) : TRUE
    IN  SubSeq(s0, k + 1, Len(s0))

IdChars == Range(UpperCase) \cup Range(LowerCase) \cup Digits \cup {"_", "-"}

\* rule "path digits": the path ends with a segment of 4 or more digits
PathRuleMatches == TailStarts(args.path, {"/"}, Digits, MinPathDigits) # {}
PathRuleId == TailRun(args.path, {"/"}, Digits, MinPathDigits)

\* rule "tail": the link ends with 6 or more characters of [A-Za-z0-9_-] after '=' or '/'
TailRuleMatches == TailStarts(args.link, {"=", "/"}, IdChars, MinTailRun) # {}
TailRuleId == TailRun(args.link, {"=", "/"}, IdChars, MinTailRun)

\* the platform-specific pattern: a Paylocity detail URL, /Jobs/Details/<digits>
JobsDetails == <<"/","J","o","b","s","/","D","e","t","a","i","l","s","/">>
PlatformRuleMatches ==
    /\ StartsAt(args.path, JobsDetails, 1)
    /\ TailStarts(args.path, {"/"}, Digits, MinPathDigits) # {}
PlatformRuleId == TailRun(args.path, {"/"}, Digits, MinPathDigits)

\* the id a card carries for an extracted value, as the code prefixes it
Prefixed(id) == CompanyPrefix(args.company_name) \o <<"-">> \o id

\* C7 as stated: for every link with a known id query parameter the Unique Job ID is
\* the value of the parameter first in priority order, prefixed with the sanitized
\* company name and a hyphen, whatever else the URL holds.
C7_KnownParamSuppliesId ==
    (CardDone /\ HasKnownParam) =>
        ret.value.Unique_Job_ID =
            SanitizedCompanyName(args.company_name) \o <<"-">>
                \o PriorityField(IsKnownParam).decoded

\* C8 as stated: every Unique Job ID other than 'N/A' is the company name with all
\* non-alphanumeric characters removed and upper-cased, a hyphen, and the extracted id.
C8_SanitizedPrefix ==
    (CardDone /\ ret.value.Unique_Job_ID # STR_NA) =>
        LET prefix == SanitizedCompanyName(args.company_name) \o <<"-">>
        IN  /\ StartsAt(ret.value.Unique_Job_ID, prefix, 1)
            /\ Len(ret.value.Unique_Job_ID) > Len(prefix)

\* C9 as stated: a platform-specific pattern (the trailing numeric path segment of a
\* Paylocity detail URL) is tried first, then the query parameters, then the trailing
\* digits of the path, then the trailing run; the first rule that matches decides.
C9_Original ==
    CardDone =>
        IF PlatformRuleMatches THEN ret.value.Unique_Job_ID = Prefixed(PlatformRuleId)
        ELSE IF QueryRuleMatches THEN ret.value.Unique_Job_ID = Prefixed(QueryRuleId)
        ELSE IF PathRuleMatches THEN ret.value.Unique_Job_ID = Prefixed(PathRuleId)
        ELSE TailRuleMatches => ret.value.Unique_Job_ID = Prefixed(TailRuleId)

\* C9 as amended: the rules are tried in the order (1) known query parameters in
\* priority order, (2) a final path segment of 4 or more digits, (3) a final run of 6
\* or more characters of [A-Za-z0-9_-] after '=' or '/'; the first rule that matches
\* decides, and no platform-specific rule comes before the query parameters.
C9_RuleOrder ==
    CardDone =>
        IF QueryRuleMatches THEN ret.value.Unique_Job_ID = Prefixed(QueryRuleId)
        ELSE IF PathRuleMatches THEN ret.value.Unique_Job_ID = Prefixed(PathRuleId)
        ELSE TailRuleMatches => ret.value.Unique_Job_ID = Prefixed(TailRuleId)

\* C9 witness: a Paylocity detail URL whose path ends in digits also carried a known
\* query parameter, and the parameter decided the id.
C9_Witness ==
    /\ CardDone
    /\ QueryRuleMatches /\ PathRuleMatches /\ PlatformRuleMatches /\ TailRuleMatches
    /\ QueryRuleId # PathRuleId
    /\ ret.value.Unique_Job_ID = Prefixed(QueryRuleId)

\* C10: for a link that matches none of the identifier rules the Unique Job ID is
\* exactly 'N/A', with no company prefix, and the JobCard is still produced.
C10_NoRuleGivesSentinel ==
    (CardDone /\ ~QueryRuleMatches /\ ~PathRuleMatches /\ ~TailRuleMatches) =>
        /\ ret.value.Unique_Job_ID = STR_NA
        /\ ret.value.Link_to_Job = args.link
        /\ ret.value.Company = args.company_name
        /\ ret.value.Matched_Keywords = <<KW_Python>>

\* C10 witness: a link with a five-letter path and no query produced a card with 'N/A'.
C10_Witness ==
    /\ CardDone
    /\ args.path = <<"/","a","b","c","d","e">>
    /\ args.params = <<>>
    /\ args.fragment = <<>>
    /\ ret.value.Unique_Job_ID = STR_NA
    /\ ret.value.Link_to_Job = args.link

----------------------------------------------------------------------------
(* The batch: main.py and scraper.process_company *)

STR_paylocity == <<"r","e","c","r","u","i","t","i","n","g",".","p","a","y","l","o","c","i","t","y",".","c","o","m">>
STR_adp == <<"w","o","r","k","f","o","r","c","e","n","o","w",".","a","d","p",".","c","o","m">>
URL_paylocity == <<"h","t","t","p","s",":","/","/","r","e","c","r","u","i","t","i","n","g",".","p","a","y","l","o","c","i","t","y",".","c","o","m","/","r">>
URL_adp == <<"h","t","t","p","s",":","/","/","w","o","r","k","f","o","r","c","e","n","o","w",".","a","d","p",".","c","o","m","/","c">>
URL_adp_paylocity == <<"h","t","t","p","s",":","/","/","w","o","r","k","f","o","r","c","e","n","o","w",".","a","d","p",".","c","o","m","/","c","?","u","=","r","e","c","r","u","i","t","i","n","g",".","p","a","y","l","o","c","i","t","y",".","c","o","m">>
URL_other == <<"h","t","t","p","s",":","/","/","h","/","c","a","r","e","e","r","s">>
LINK_adp == <<"h","t","t","p","s",":","/","/","w","o","r","k","f","o","r","c","e","n","o","w",".","a","d","p",".","c","o","m","/","c","?","j","o","b","I","d","=","9","0","0","1">>

\* the pages a navigation can end on (after redirects)
UrlPool == {URL_paylocity, URL_adp, URL_adp_paylocity, URL_other}

\* the pending requests in Jira, in the order the search returns them
TargetList ==
    << [company_name |-> CO_AcmeCorp, careers_url |-> URL_paylocity, keywords |-> <<KW_Python>>],
       [company_name |-> CO_AandB, careers_url |-> URL_adp, keywords |-> <<KW_Nurse>>],
       [company_name |-> <<"D","e","v">>, careers_url |-> URL_other,
        keywords |-> <<KW_Engineer, <<>>>>] >>

TargetAt(k) == TargetList[((k - 1) % Len(TargetList)) + 1]

Init ==
    /\ targets \in {[k \in 1..n |-> TargetAt(k)] : n \in 0..MaxTargets}
    /\ pc = "start"
    /\ idx = 0
    /\ driver_open = FALSE
    /\ quits = 0
    /\ current_url = <<>>
    /\ on_listing = FALSE
    /\ page_gets = 0
    /\ SELENIUM_PAGE_LOADS = 0
    /\ invoked = <<>>
    /\ all_job_details = <<>>
    /\ all_found_jobs = <<>>
    /\ error = NoError
    /\ handled = <<>>
    /\ gh_wait = "not_run"
    /\ ext = Idle
    /\ args = [fn |-> "none"]
    /\ ret = Pending

company == targets[idx + 1]

\* a faulty variant: the exception leaves main without passing through the finally
Raise_SkipsFinally(origin, type) ==
    /\ error' = [origin |-> origin, type |-> type]
    /\ handled' = Append(handled, [result |-> "raised", origin |-> origin, type |-> type])
    /\ pc' = "crashed"

\* an exception nothing catches before main's finally: process_company has no handler
\* for it and main's try has no except clause
Raise(origin, type) ==
    /\ error' = [origin |-> origin, type |-> type]
    /\ handled' = Append(handled, [result |-> "raised", origin |-> origin, type |-> type])
    /\ pc' = "finally"

\* main.py:54-56: no Targets, main returns before a browser is started
NoTargets ==
    /\ pc = "start"
    /\ targets = <<>>
    /\ pc' = "exit"
    /\ UNCHANGED <<targets, idx, driver_open, quits, current_url, on_listing, page_gets,
                   SELENIUM_PAGE_LOADS, invoked, all_job_details, all_found_jobs, error,
                   handled, gh_wait, ext, args, ret>>

\* main.py:58-70
OpenSession ==
    /\ pc = "start"
    /\ targets # <<>>
    /\ driver_open' = TRUE
    /\ all_found_jobs' = <<>>
    /\ pc' = "loop"
    /\ UNCHANGED <<targets, idx, quits, current_url, on_listing, page_gets,
                   SELENIUM_PAGE_LOADS, invoked, all_job_details, error, handled,
                   gh_wait, ext, args, ret>>

\* main.py:74-76 and process_company lines 296-305: the next Target's page is loaded
Navigate ==
    /\ pc = "loop"
    /\ idx < Len(targets)
    /\ invoked' = <<>>
    /\ gh_wait' = "not_run"
    /\ all_job_details' = <<>>
    /\ ext' = Idle
    /\ \/ \E url \in UrlPool :
             /\ current_url' = url
             /\ on_listing' = TRUE
             /\ page_gets' = page_gets + 1
             /\ SELENIUM_PAGE_LOADS' = SELENIUM_PAGE_LOADS + 1
             /\ pc' = "select"
             /\ UNCHANGED <<error, handled>>
       \/ /\ Raise("navigation", "WebDriverException")
          /\ on_listing' = FALSE
          /\ UNCHANGED <<current_url, page_gets, SELENIUM_PAGE_LOADS>>
    /\ UNCHANGED <<targets, idx, driver_open, quits, all_found_jobs, args, ret>>

\* a faulty variant: tests for ADP first
SelectStrategy_AdpFirst(url) ==
    IF Contains(url, STR_adp) THEN "adp"
    ELSE IF Contains(url, STR_paylocity) THEN "paylocity"
    ELSE "greenhouse_wait"

\* process_company lines 310, 316, 321: the branch taken for driver.current_url
SelectStrategy(url) ==
    IF Contains(url, STR_paylocity) THEN "paylocity"
    ELSE IF Contains(url, STR_adp) THEN "adp"
    ELSE "greenhouse_wait"

\* a faulty variant: lets the TimeoutException of the wait escape
AfterGreenhouseWait_Uncaught(found) ==
    IF found
    THEN [pc |-> "greenhouse", invoked |-> <<"greenhouse">>, error |-> NoError]
    ELSE [pc |-> "finally", invoked |-> <<>>,
          error |-> [origin |-> "dispatcher", type |-> "TimeoutException"]]

\* process_company lines 322-337: the wait for a Greenhouse element, and its except
AfterGreenhouseWait(found) ==
    IF found
    THEN [pc |-> "greenhouse", invoked |-> <<"greenhouse">>, error |-> NoError]
    ELSE [pc |-> "validate", invoked |-> <<>>, error |-> NoError]

\* process_company lines 307-337: the strategy is chosen and its extractor called
Select ==
    /\ pc = "select"
    /\ LET branch == SelectStrategy(current_url)
       IN  \/ /\ branch \in {"paylocity", "adp"}
              /\ pc' = branch
              /\ invoked' = Append(invoked, branch)
              /\ UNCHANGED <<gh_wait, error>>
           \/ /\ branch = "greenhouse_wait"
              /\ \E found \in BOOLEAN :
                    /\ gh_wait' = IF found THEN "found" ELSE "timeout"
                    /\ pc' = AfterGreenhouseWait(found).pc
                    /\ invoked' = invoked \o AfterGreenhouseWait(found).invoked
                    /\ error' = AfterGreenhouseWait(found).error
    /\ all_job_details' = <<>>
    /\ UNCHANGED <<targets, idx, driver_open, quits, current_url, on_listing, page_gets,
                   SELENIUM_PAGE_LOADS, all_found_jobs, handled, ext, args, ret>>

\* process_company lines 339-342 and main.py:76-77: the records are validated, the
\* cards returned (company_results) and appended to all_found_jobs
company_results == validate_and_format_jobs(all_job_details, company)

\* a faulty variant: the cards of a Target are put before those of the earlier Targets
Validate_Prepends ==
    /\ pc = "validate"
    /\ all_found_jobs' = company_results \o all_found_jobs
    /\ handled' = Append(handled, [result |-> "returned", cards |-> company_results])
    /\ idx' = idx + 1
    /\ pc' = "loop"
    \* the call is over: its locals, and what it read of the page, are gone
    /\ ext' = Idle
    /\ invoked' = <<>>
    /\ gh_wait' = "not_run"
    /\ all_job_details' = <<>>
    /\ current_url' = <<>>
    /\ on_listing' = FALSE
    /\ UNCHANGED <<targets, driver_open, quits, page_gets, SELENIUM_PAGE_LOADS, error,
                   args, ret>>

Validate ==
    /\ pc = "validate"
    /\ all_found_jobs' = all_found_jobs \o company_results
    /\ handled' = Append(handled, [result |-> "returned", cards |-> company_results])
    /\ idx' = idx + 1
    /\ pc' = "loop"
    \* the call is over: its locals, and what it read of the page, are gone
    /\ ext' = Idle
    /\ invoked' = <<>>
    /\ gh_wait' = "not_run"
    /\ all_job_details' = <<>>
    /\ current_url' = <<>>
    /\ on_listing' = FALSE
    /\ UNCHANGED <<targets, driver_open, quits, page_gets, SELENIUM_PAGE_LOADS, error,
                   args, ret>>

\* main.py:74: the for loop has no Target left
LoopEnd ==
    /\ pc = "loop"
    /\ idx = Len(targets)
    /\ pc' = "finally"
    /\ UNCHANGED <<targets, idx, driver_open, quits, current_url, on_listing, page_gets,
                   SELENIUM_PAGE_LOADS, invoked, all_job_details, all_found_jobs, error,
                   handled, gh_wait, ext, args, ret>>

\* main.py:85-88: driver.quit(); an exception in flight then leaves main
Finally ==
    /\ pc = "finally"
    /\ driver_open' = FALSE
    /\ quits' = quits + 1
    /\ pc' = IF error = NoError THEN "done" ELSE "crashed"
    /\ UNCHANGED <<targets, idx, current_url, on_listing, page_gets,
                   SELENIUM_PAGE_LOADS, invoked, all_job_details, all_found_jobs, error,
                   handled, gh_wait, ext, args, ret>>

----------------------------------------------------------------------------
(* The Paylocity extractor *)

\* the detail pages a listing can link to: the outcome of the GET and what the
\* selectors find (None: the selector finds nothing)
PaylocityPages ==
    { [link |-> LINK_paylocity, fetch |-> "ok", title_span |-> TXT_SeniorPythonDeveloper,
       h1 |-> None, location |-> LOC_Reston, description |-> <<"e">>],
      [link |-> LINK_careers, fetch |-> "ok", title_span |-> None, h1 |-> KW_Nurse,
       location |-> <<>>, description |-> None],
      [link |-> LINK_paylocity, fetch |-> "timeout", title_span |-> None, h1 |-> None,
       location |-> None, description |-> None],
      [link |-> LINK_gh, fetch |-> "ok", title_span |-> None, h1 |-> None,
       location |-> LOC_Reston, description |-> <<"E">>],
      [link |-> LINK_careers, fetch |-> "http_error", title_span |-> None, h1 |-> None,
       location |-> None, description |-> None] }

\* scraper.fetch_paylocity_details_async: <<record>>, or <<>> for the None it returns
\* when the GET fails or a selector of title or location finds nothing (every
\* exception is caught at line 190). The description text is taken as already free of
\* the boilerplate paragraphs.
fetch_paylocity_details_async(page) ==
    IF page.fetch # "ok" THEN <<>>
    ELSE IF page.title_span = None /\ page.h1 = None THEN <<>>
    ELSE IF page.location = None THEN <<>>
    ELSE <<[link |-> page.link,
            title |-> IF page.title_span # None THEN page.title_span ELSE page.h1,
            location |-> page.location,
            description |-> IF page.description # None THEN page.description ELSE <<>>]>>

\* scraper.parse_strategy_paylocity: gather, then [res for res in results if res]
RECURSIVE parse_strategy_paylocity(_)
parse_strategy_paylocity(pages) ==
    IF pages = <<>> THEN <<>>
    ELSE fetch_paylocity_details_async(Head(pages)) \o parse_strategy_paylocity(Tail(pages))

\* process_company lines 311-313
RunPaylocity ==
    /\ pc = "paylocity"
    /\ \E pages \in SeqUpTo(PaylocityPages, MaxJobs) :
          /\ ext' = [kind |-> "paylocity", links |-> Len(pages)]
          /\ all_job_details' = parse_strategy_paylocity(pages)
    /\ pc' = "validate"
    /\ UNCHANGED <<targets, idx, driver_open, quits, current_url, on_listing, page_gets,
                   SELENIUM_PAGE_LOADS, invoked, all_found_jobs, error, handled,
                   gh_wait, args, ret>>

----------------------------------------------------------------------------
(* The Greenhouse extractor *)

IsSpace(c) == c \in {" "}

\* str.strip()
RECURSIVE LStrip(_)
LStrip(s) == IF s # <<>> /\ IsSpace(s[1]) THEN LStrip(Tail(s)) ELSE s
RECURSIVE RStrip(_)
RStrip(s) == IF s # <<>> /\ IsSpace(s[Len(s)]) THEN RStrip(SubSeq(s, 1, Len(s) - 1)) ELSE s
Strip(s) == RStrip(LStrip(s))

\* the text nodes of a markup string: the runs of characters outside <...>
RECURSIVE TextNodes(_, _, _)
TextNodes(html, in_tag, node) ==
    IF html = <<>> THEN <<node>>
    ELSE IF in_tag THEN TextNodes(Tail(html), html[1] # ">", node)
    ELSE IF html[1] = "<" THEN <<node>> \o TextNodes(Tail(html), TRUE, <<>>)
    ELSE TextNodes(Tail(html), FALSE, Append(node, html[1]))

RECURSIVE JoinWithSpace(_)
JoinWithSpace(nodes) ==
    IF nodes = <<>> THEN <<>>
    ELSE IF Len(nodes) = 1 THEN nodes[1]
    ELSE nodes[1] \o <<" ">> \o JoinWithSpace(Tail(nodes))

\* BeautifulSoup(content, 'html.parser').get_text(" ", strip=True)
get_text(content) ==
    JoinWithSpace(SelectSeq([i \in DOMAIN TextNodes(content, FALSE, <<>>) |->
                                Strip(TextNodes(content, FALSE, <<>>)[i])],
                            LAMBDA n : n # <<>>))

\* re.sub(r'[^a-z0-9]', '', company_name.lower().strip())
GuessBoardToken(company_name) ==
    SelectSeq(Strip(Lower(company_name)), LAMBDA c : IsLower(c) \/ IsDigit(c))

HTML_inline == <<"<","p",">","e","n","<","/","p",">"," ","<","b",">","E","<","/","b",">">>
HTML_detail == <<"<","p",">","P","y","t","h","o","n","<","/","p",">">>

\* the jobs a board listing can hold. None is a JSON null (or, for content and id, an
\* absent key too); detail is the answer to the job's detail request
GreenhouseJobs ==
    { [title |-> KW_Nurse, location_is_null |-> FALSE, location_name |-> LOC_Reston,
       absolute_url |-> LINK_gh, content |-> HTML_inline, id |-> <<"7">>,
       detail |-> [kind |-> "none", content |-> None]],
      [title |-> <<" ", "E", "n", " ">>, location_is_null |-> FALSE, location_name |-> LOC_Reston,
       absolute_url |-> LINK_careers, content |-> None, id |-> <<"8">>,
       detail |-> [kind |-> "200", content |-> HTML_detail]],
      [title |-> KW_Python, location_is_null |-> FALSE, location_name |-> LOC_Reston,
       absolute_url |-> LINK_careers, content |-> None, id |-> <<"9">>,
       detail |-> [kind |-> "network_error", content |-> None]],
      [title |-> KW_Engineer, location_is_null |-> FALSE, location_name |-> LOC_Reston,
       absolute_url |-> LINK_careers, content |-> None, id |-> <<"5">>,
       detail |-> [kind |-> "404", content |-> None]],
      [title |-> KW_Engineer, location_is_null |-> TRUE, location_name |-> None,
       absolute_url |-> LINK_gh, content |-> HTML_inline, id |-> <<"6">>,
       detail |-> [kind |-> "none", content |-> None]],
      [title |-> KW_Nurse, location_is_null |-> FALSE, location_name |-> LOC_Reston,
       absolute_url |-> LINK_gh, content |-> <<>>, id |-> <<"4">>,
       detail |-> [kind |-> "json_error", content |-> None]] }

\* the answers of the board listing request
GreenhouseBoards ==
    {[kind |-> k, jobs |-> <<>>] : k \in {"status_error", "network_error", "json_error"}}
        \cup {[kind |-> "ok", jobs |-> jobs] : jobs \in SeqUpTo(GreenhouseJobs, MaxJobs)}

\* lines 140-155 for one job: the record, an abort (an exception the function catches
\* at lines 158-166) or a raise (one it does not)
GreenhouseJob(job) ==
    LET needs_detail == ~Truthy(job.content) /\ Truthy(job.id)
        job_content == IF ~needs_detail THEN job.content
                       ELSE IF job.detail.kind = "200" THEN job.detail.content
                       ELSE job.content
    IN  IF needs_detail /\ job.detail.kind \in {"network_error", "json_error"}
        THEN [status |-> "abort", records |-> <<>>, requests |-> 1]
        ELSE IF job.title = None \/ job.location_is_null \/ job.location_name = None
        THEN [status |-> "raise", records |-> <<>>, requests |-> IF needs_detail THEN 1 ELSE 0]
        ELSE [status |-> "ok",
              records |-> <<[title |-> Strip(job.title),
                             location |-> Strip(job.location_name),
                             link |-> Strip(job.absolute_url),
                             description |-> get_text(IF Truthy(job_content)
                                                      THEN job_content ELSE <<>>)]>>,
              requests |-> IF needs_detail THEN 1 ELSE 0]

\* a faulty variant: returns the records collected before an aborting request
RECURSIVE GreenhouseLoop_KeepsPartial(_, _, _)
GreenhouseLoop_KeepsPartial(jobs, records, requests) ==
    IF jobs = <<>> THEN [status |-> "ok", records |-> records, requests |-> requests]
    ELSE LET r == GreenhouseJob(Head(jobs))
         IN  IF r.status = "ok"
             THEN GreenhouseLoop_KeepsPartial(Tail(jobs), records \o r.records,
                                              requests + r.requests)
             ELSE [status |-> r.status, records |-> records,
                   requests |-> requests + r.requests]

\* lines 136-157: the loop over the jobs of the listing
RECURSIVE GreenhouseLoop(_, _, _)
GreenhouseLoop(jobs, records, requests) ==
    IF jobs = <<>> THEN [status |-> "ok", records |-> records, requests |-> requests]
    ELSE LET r == GreenhouseJob(Head(jobs))
         IN  IF r.status = "ok"
             THEN GreenhouseLoop(Tail(jobs), records \o r.records, requests + r.requests)
             ELSE [status |-> r.status, records |-> <<>>, requests |-> requests + r.requests]

\* scraper.parse_strategy_greenhouse_api
parse_strategy_greenhouse_api(board_token, board) ==
    IF board_token = <<>> THEN [status |-> "ok", records |-> <<>>, requests |-> 0]
    ELSE IF board.kind # "ok" THEN [status |-> "abort", records |-> <<>>, requests |-> 0]
    ELSE GreenhouseLoop(board.jobs, <<>>, 0)

\* process_company lines 331-333; the except at line 334 catches TimeoutException only
RunGreenhouse ==
    /\ pc = "greenhouse"
    /\ \E board \in GreenhouseBoards, script_token \in {None, <<"t">>} :
          LET board_token == IF script_token # None THEN script_token
                             ELSE GuessBoardToken(company.company_name)
              r == parse_strategy_greenhouse_api(board_token, board)
          IN  /\ ext' = [kind |-> "greenhouse", jobs |-> Len(board.jobs),
                         status |-> r.status, detail_requests |-> r.requests]
              /\ IF r.status = "raise"
                 THEN /\ Raise("greenhouse", "AttributeError")
                      /\ UNCHANGED all_job_details
                 ELSE /\ all_job_details' = r.records
                      /\ pc' = "validate"
                      /\ UNCHANGED <<error, handled>>
    /\ UNCHANGED <<targets, idx, driver_open, quits, current_url, on_listing, page_gets,
                   SELENIUM_PAGE_LOADS, invoked, all_found_jobs, gh_wait, args, ret>>

----------------------------------------------------------------------------
(* The ADP click-through extractor *)

LocationNotSpecified == <<"L","o","c","a","t","i","o","n"," ","n","o","t"," ","s","p","e","c","i","f","i","e","d">>
DescriptionNotFound == <<"D","e","s","c","r","i","p","t","i","o","n"," ","n","o","t"," ","f","o","u","n","d",".">>

\* the detail pages a click can open: what the selectors of lines 251-265 find.
\* title None: no h2.job-description-title; location <<>>: no location span;
\* description None: no description element, or none of its parts is kept
AdpPages ==
    { [link |-> LINK_adp, title |-> KW_Nurse, location |-> LOC_Reston,
       description |-> <<"E", "n">>],
      [link |-> LINK_adp, title |-> TXT_SeniorPythonDeveloper, location |-> <<>>,
       description |-> None],
      [link |-> LINK_adp, title |-> None, location |-> LOC_Reston,
       description |-> <<"e">>] }

\* lines 267-272: the record of a detail page whose title was found
AdpRecord(page) ==
    [title |-> page.title,
     location |-> IF page.location # <<>> THEN page.location ELSE LocationNotSpecified,
     link |-> page.link,
     description |-> IF page.description # None THEN page.description
                     ELSE DescriptionNotFound]

\* parse_strategy_adp_clickthrough lines 212-230: 'View all' is clicked when present,
\* then the list container is awaited outside any try, and the items are counted
AdpStart ==
    /\ pc = "adp"
    /\ \E container_present \in BOOLEAN, num_jobs \in 0..MaxJobs :
          IF container_present
          THEN /\ ext' = [kind |-> "adp", i |-> 0, num_jobs |-> num_jobs]
               /\ pc' = "adp_loop"
               /\ UNCHANGED <<error, handled>>
          ELSE /\ ext' = [kind |-> "adp", i |-> 0, num_jobs |-> 0]
               /\ Raise("adp", "TimeoutException")
    /\ all_job_details' = <<>>
    /\ UNCHANGED <<targets, idx, driver_open, quits, current_url, on_listing, page_gets,
                   SELENIUM_PAGE_LOADS, invoked, all_found_jobs, gh_wait, args, ret>>

\* a faulty variant: the exception of a detail page without a title leaves the loop
AdpItem_Uncaught ==
    /\ pc = "adp_loop"
    /\ ext.i < ext.num_jobs
    /\ \/ \* line 234: the list container does not appear (the session is on a detail page)
          /\ ~on_listing
          /\ ext' = [ext EXCEPT !.i = ext.i + 1]
          /\ UNCHANGED <<pc, all_job_details, on_listing, page_gets, error, handled>>
       \/ \* lines 236-238: the list has shrunk, the loop stops
          /\ on_listing
          /\ pc' = "validate"
          /\ UNCHANGED <<ext, all_job_details, on_listing, page_gets, error, handled>>
       \/ \* line 241: the item has no sdf-link
          /\ on_listing
          /\ ext' = [ext EXCEPT !.i = ext.i + 1]
          /\ UNCHANGED <<pc, all_job_details, on_listing, page_gets, error, handled>>
       \/ \* lines 244-245: clicked, but the URL never contains jobId=
          /\ on_listing
          /\ \E left \in BOOLEAN : on_listing' = ~left
          /\ ext' = [ext EXCEPT !.i = ext.i + 1]
          /\ UNCHANGED <<pc, all_job_details, page_gets, error, handled>>
       \/ \* lines 244-288: clicked and scraped
          /\ on_listing
          /\ \E page \in AdpPages, reload_ok \in BOOLEAN :
                IF page.title = None
                THEN /\ on_listing' = FALSE
                     /\ Raise("adp", "AttributeError")
                     /\ UNCHANGED <<all_job_details, page_gets, ext>>
                ELSE /\ all_job_details' = Append(all_job_details, AdpRecord(page))
                     /\ on_listing' = reload_ok
                     /\ page_gets' = IF reload_ok THEN page_gets + 1 ELSE page_gets
                     /\ ext' = [ext EXCEPT !.i = ext.i + 1]
                     /\ UNCHANGED <<pc, error, handled>>
    /\ UNCHANGED <<targets, idx, driver_open, quits, current_url, SELENIUM_PAGE_LOADS,
                   invoked, all_found_jobs, gh_wait, args, ret>>

\* lines 232-288, one iteration. Every exception is caught at line 286 and the loop
\* goes on with the next index.
AdpItem ==
    /\ pc = "adp_loop"
    /\ ext.i < ext.num_jobs
    /\ \/ \* line 234: the list container does not appear (the session is on a detail page)
          /\ ~on_listing
          /\ ext' = [ext EXCEPT !.i = ext.i + 1]
          /\ UNCHANGED <<pc, all_job_details, on_listing, page_gets>>
       \/ \* lines 236-238: the list has shrunk, the loop stops
          /\ on_listing
          /\ pc' = "validate"
          /\ UNCHANGED <<ext, all_job_details, on_listing, page_gets>>
       \/ \* line 241: the item has no sdf-link
          /\ on_listing
          /\ ext' = [ext EXCEPT !.i = ext.i + 1]
          /\ UNCHANGED <<pc, all_job_details, on_listing, page_gets>>
       \/ \* lines 244-245: clicked, but the URL never contains jobId=
          /\ on_listing
          /\ \E left \in BOOLEAN : on_listing' = ~left
          /\ ext' = [ext EXCEPT !.i = ext.i + 1]
          /\ UNCHANGED <<pc, all_job_details, page_gets>>
       \/ \* lines 244-288: clicked and scraped
          /\ on_listing
          /\ \E page \in AdpPages, reload_ok \in BOOLEAN :
                IF page.title = None
                THEN \* line 251 raises: nothing is appended, the list is not reloaded
                     /\ on_listing' = FALSE
                     /\ UNCHANGED <<all_job_details, page_gets>>
                ELSE /\ all_job_details' = Append(all_job_details, AdpRecord(page))
                     /\ on_listing' = reload_ok
                     /\ page_gets' = IF reload_ok THEN page_gets + 1 ELSE page_gets
          /\ ext' = [ext EXCEPT !.i = ext.i + 1]
          /\ UNCHANGED pc
    /\ UNCHANGED <<targets, idx, driver_open, quits, current_url, SELENIUM_PAGE_LOADS,
                   invoked, all_found_jobs, error, handled, gh_wait, args, ret>>

\* line 290
AdpReturn ==
    /\ pc = "adp_loop"
    /\ ext.i = ext.num_jobs
    /\ pc' = "validate"
    /\ UNCHANGED <<targets, idx, driver_open, quits, current_url, on_listing, page_gets,
                   SELENIUM_PAGE_LOADS, invoked, all_job_details, all_found_jobs, error,
                   handled, gh_wait, ext, args, ret>>

----------------------------------------------------------------------------

Next ==
    \/ NoTargets
    \/ OpenSession
    \/ Navigate
    \/ Select
    \/ RunPaylocity
    \/ RunGreenhouse
    \/ AdpStart
    \/ AdpItem
    \/ AdpReturn
    \/ Validate
    \/ LoopEnd
    \/ Finally

Spec == Init /\ [][Next]_vars

----------------------------------------------------------------------------
(* Properties of the dispatcher and of the batch *)

\* the extractor the ordered decision procedure names for the page the session is on
ExpectedExtractor ==
    IF IsSubstring(STR_paylocity, current_url) THEN <<"paylocity">>
    ELSE IF IsSubstring(STR_adp, current_url) THEN <<"adp">>
    ELSE IF gh_wait = "found" THEN <<"greenhouse">>
    ELSE <<>>

\* process_company has chosen its branch and has not returned
StrategyChosen == pc \in {"paylocity", "adp", "adp_loop", "greenhouse", "validate"}

\* C1: for every Target the extractor is selected first-match-wins on the URL reached:
\* Paylocity when the URL contains 'recruiting.paylocity.com' (even if it also contains
\* 'workforcenow.adp.com'), else ADP when it contains 'workforcenow.adp.com', else
\* Greenhouse only when its DOM signature appeared within the wait; exactly one
\* extractor, or none, is invoked per Target, and the one running is the one selected.
C1_FirstMatchWins ==
    /\ Len(invoked) <= 1
    /\ StrategyChosen => invoked = ExpectedExtractor
    /\ pc = "paylocity" => invoked = <<"paylocity">>
    /\ pc \in {"adp", "adp_loop"} => invoked = <<"adp">>
    /\ pc = "greenhouse" => invoked = <<"greenhouse">>
    /\ ext # Idle => invoked = <<ext.kind>>
    /\ error.origin \in {"paylocity", "adp", "greenhouse"} => invoked = <<error.origin>>
    /\ gh_wait # "not_run" =>
          ~IsSubstring(STR_paylocity, current_url) /\ ~IsSubstring(STR_adp, current_url)

\* a URL holding both markers, the ADP one first, has started the Paylocity extractor
C1_Witness ==
    /\ pc = "paylocity"
    /\ current_url = URL_adp_paylocity
    /\ IsSubstring(STR_adp, current_url)
    /\ invoked = <<"paylocity">>

\* the page is neither a Paylocity nor an ADP page and the wait for a Greenhouse
\* signature has timed out
NoStrategyMatched ==
    /\ ~IsSubstring(STR_paylocity, current_url)
    /\ ~IsSubstring(STR_adp, current_url)
    /\ gh_wait = "timeout"

\* C2: when the URL reached is neither a Paylocity nor an ADP URL and no Greenhouse
\* signature appears before the wait times out, process_company raises nothing,
\* invokes no extractor and is about to return an empty list.
C2_NoStrategyReturnsEmpty ==
    NoStrategyMatched =>
        /\ pc = "validate"
        /\ error = NoError
        /\ invoked = <<>>
        /\ ext = Idle
        /\ all_job_details = <<>>
        /\ company_results = <<>>

\* the wait has timed out on a page of neither platform and the empty list is returned
C2_Witness ==
    /\ NoStrategyMatched
    /\ current_url = URL_other
    /\ pc = "validate"
    /\ company_results = <<>>

\* the batch loop is over, normally or not
BatchOver == pc \in {"done", "crashed"}

\* C3: a failure while processing one Target never crashes the batch: main does not
\* end with an exception, every Target of the list has been processed when the loop is
\* over, and the cards of every Target that returned are in all_found_jobs.
C3_FailureDoesNotCrashBatch ==
    /\ pc # "crashed"
    /\ BatchOver => idx = Len(targets)
    /\ BatchOver =>
          \A k \in DOMAIN handled :
              handled[k].result = "returned" =>
                  \A c \in DOMAIN handled[k].cards :
                      \E m \in DOMAIN all_found_jobs : all_found_jobs[m] = handled[k].cards[c]

\* C4: no error raised inside an extractor escapes to the dispatcher: whatever fails
\* inside an extractor, the extractor returns a list.
C4_NoExtractorErrorEscapes ==
    /\ error.origin \notin {"paylocity", "adp", "greenhouse"}
    /\ \A k \in DOMAIN handled :
          handled[k].result = "raised" =>
              handled[k].origin \notin {"paylocity", "adp", "greenhouse"}

----------------------------------------------------------------------------
(* The Paylocity extractor on bounded inputs, its fetches running concurrently *)

\* the indices of a list
Indices(seq) == 1..Len(seq)

InitPaylocity ==
    /\ MainIdle
    /\ ret = Pending
    /\ \E pages \in SeqUpTo(PaylocityPages, MaxJobs) :
          args = [fn |-> "parse_strategy_paylocity", pages |-> pages]

\* lines 200-203: one task per link, all handed to asyncio.gather before any is awaited
LaunchFetches ==
    /\ args.fn = "parse_strategy_paylocity"
    /\ ext = Idle
    /\ ~ret.done
    /\ ext' = [kind |-> "gather", finished |-> {},
               results |-> [i \in Indices(args.pages) |-> <<>>]]
    /\ UNCHANGED <<targets, pc, idx, driver_open, quits, current_url, on_listing,
                   page_gets, SELENIUM_PAGE_LOADS, invoked, all_job_details,
                   all_found_jobs, error, handled, gh_wait, args, ret>>

\* lines 170-192: some unfinished task ends, in any order; gather stores its result at
\* the task's own position
FetchEnds ==
    /\ ext.kind = "gather"
    /\ \E i \in Indices(args.pages) \ ext.finished :
          ext' = [ext EXCEPT !.finished = @ \cup {i},
                             !.results[i] = fetch_paylocity_details_async(args.pages[i])]
    /\ UNCHANGED <<targets, pc, idx, driver_open, quits, current_url, on_listing,
                   page_gets, SELENIUM_PAGE_LOADS, invoked, all_job_details,
                   all_found_jobs, error, handled, gh_wait, args, ret>>

\* [res for res in results if res]
RECURSIVE KeepResults(_)
KeepResults(results) ==
    IF results = <<>> THEN <<>> ELSE Head(results) \o KeepResults(Tail(results))

\* lines 203-204: every task has ended, gather returns and the None results are dropped
GatherReturns ==
    /\ ext.kind = "gather"
    /\ ext.finished = Indices(args.pages)
    /\ ~ret.done
    /\ ret' = [done |-> TRUE, value |-> KeepResults(ext.results)]
    /\ UNCHANGED <<mainVars, args>>

NextPaylocity == LaunchFetches \/ FetchEnds \/ GatherReturns

SpecPaylocity == InitPaylocity /\ [][NextPaylocity]_vars

\* parse_strategy_paylocity has returned
PaylocityDone == args.fn = "parse_strategy_paylocity" /\ ret.done

\* the links whose GET succeeded
FetchedOk == {i \in Indices(args.pages) : args.pages[i].fetch = "ok"}

\* C11: the Paylocity fetches run as one batch and a failed fetch (timeout, HTTP error
\* status) touches no sibling: with N links of which k fail, the extractor returns
\* exactly N-k records, those of the links whose fetch succeeded.
C11_FailedFetchesOnlyAreDropped ==
    PaylocityDone =>
        /\ Len(ret.value) = Len(args.pages) - Cardinality(Indices(args.pages) \ FetchedOk)
        /\ \A i \in FetchedOk : \E r \in Indices(ret.value) :
               ret.value[r].link = args.pages[i].link

\* C12: a field whose selector finds nothing never drops the record: a task whose page
\* was loaded ends with a record, and only a task whose GET failed ends with none.
C12_FieldFailureKeepsRecord ==
    ext.kind = "gather" =>
        \A i \in ext.finished :
            (args.pages[i].fetch = "ok") <=> (ext.results[i] # <<>>)

----------------------------------------------------------------------------
(* The Greenhouse extractor on bounded inputs *)

\* a company name with no letter or digit: no board token can be guessed from it
CO_Ampersand == <<"&">>

InitGreenhouse ==
    /\ MainIdle
    /\ ret = Pending
    /\ \E board \in GreenhouseBoards, script_token \in {None, <<"t">>},
          company_name \in {CO_AcmeCorp, CO_Ampersand} :
          args = [fn |-> "parse_strategy_greenhouse_api", board |-> board,
                  script_token |-> script_token, company_name |-> company_name]

\* lines 106-124: the token of the embed script, else the one guessed from the name
BoardToken(script_token, company_name) ==
    IF Truthy(script_token) THEN script_token ELSE GuessBoardToken(company_name)

CallParseStrategyGreenhouseApi ==
    /\ ~ret.done
    /\ args.fn = "parse_strategy_greenhouse_api"
    /\ ret' = [done |-> TRUE,
               value |-> parse_strategy_greenhouse_api(
                             BoardToken(args.script_token, args.company_name), args.board)]
    /\ UNCHANGED <<mainVars, args>>

NextGreenhouse == CallParseStrategyGreenhouseApi

SpecGreenhouse == InitGreenhouse /\ [][NextGreenhouse]_vars

\* parse_strategy_greenhouse_api has ended, by a return or by an exception
GreenhouseDone == args.fn = "parse_strategy_greenhouse_api" /\ ret.done

\* the board listing request is made
BoardRequested ==
    args.script_token \notin {None, <<>>}
        \/ \E i \in Indices(args.company_name) :
               LowerChar(args.company_name[i]) \in Range(LowerCase) \cup Digits

\* the job comes without inline content and with an id: a detail request is due
WantsDetail(job) == job.content \in {None, <<>>} /\ job.id \notin {None, <<>>}

\* the job's title or location is a JSON null
HasNullField(job) == job.title = None \/ job.location_is_null \/ job.location_name = None

\* the k-th job of the listing is reached: the listing was answered and no earlier job
\* ended the loop
JobReached(k, failing) ==
    /\ BoardRequested
    /\ args.board.kind = "ok"
    /\ k \in Indices(args.board.jobs)
    /\ \A j \in 1..(k - 1) :
          /\ ~HasNullField(args.board.jobs[j])
          /\ ~(WantsDetail(args.board.jobs[j]) /\ args.board.jobs[j].detail.kind \in failing)

\* some request the extractor makes is answered by one of the failures
RequestFails(failing) ==
    \/ BoardRequested /\ args.board.kind # "ok"
    \/ \E k \in Indices(args.board.jobs) :
          /\ JobReached(k, failing)
          /\ WantsDetail(args.board.jobs[k])
          /\ args.board.jobs[k].detail.kind \in failing

\* the extractor has returned the empty list
ReturnedEmpty == ret.value.status # "raise" /\ ret.value.records = <<>>

PlainText(html) ==
    IF html = HTML_inline THEN <<"e", "n", " ", "E">>
    ELSE IF html = HTML_detail THEN KW_Python
    ELSE <<>>

\* the listing was answered and every detail request due is answered with status 200
AllRequestsSucceed ==
    /\ BoardRequested
    /\ args.board.kind = "ok"
    /\ \A k \in Indices(args.board.jobs) :
          WantsDetail(args.board.jobs[k]) => args.board.jobs[k].detail.kind = "200"

\* C14: for a successful board response the extractor returns one record per job, in
\* response order; a job with inline content takes its description from it and makes
\* no detail request, a job without inline content and with an id makes exactly one
\* and takes its description from the detail response.
C14_OneRecordPerJob ==
    (GreenhouseDone /\ AllRequestsSucceed) =>
        /\ ret.value.status = "ok"
        /\ Len(ret.value.records) = Len(args.board.jobs)
        /\ ret.value.requests =
              Cardinality({k \in Indices(args.board.jobs) : WantsDetail(args.board.jobs[k])})
        /\ \A k \in Indices(args.board.jobs) :
              /\ ret.value.records[k].link = args.board.jobs[k].absolute_url
              /\ ret.value.records[k].description =
                    IF WantsDetail(args.board.jobs[k])
                    THEN PlainText(args.board.jobs[k].detail.content)
                    ELSE PlainText(args.board.jobs[k].content)

----------------------------------------------------------------------------
(* Properties of the ADP click-through loop and of the page-load counter *)

\* the ADP loop is running, or has just ended and its result is about to be validated
InAdpLoop == ext.kind = "adp" /\ pc \in {"adp_loop", "validate"}

AdpLoopBounds ==
    InAdpLoop =>
        /\ ext.i \in 0..ext.num_jobs
        /\ Len(all_job_details) <= ext.i
        /\ error = NoError
        /\ (pc = "adp_loop" /\ ext.i < ext.num_jobs) => ENABLED AdpItem

\* one step taken while the loop runs: an iteration, or the return
AdpLoopStep ==
    pc = "adp_loop" =>
        /\ pc' \in {"adp_loop", "validate"}
        /\ error' = NoError
        /\ ext'.num_jobs = ext.num_jobs
        /\ pc' = "adp_loop" => ext'.i = ext.i + 1
        /\ pc' = "validate" =>
              /\ ext'.i = ext.i
              /\ all_job_details' = all_job_details
        /\ \/ all_job_details' = all_job_details
           \/ \E page \in AdpPages :
                 /\ page.title # None
                 /\ all_job_details' = Append(all_job_details,
                        [title |-> page.title,
                         location |-> IF page.location = <<>> THEN LocationNotSpecified
                                      ELSE page.location,
                         link |-> page.link,
                         description |-> IF page.description = None
                                         THEN DescriptionNotFound
                                         ELSE page.description])

C16_ListRestoredEachIteration ==
    (pc = "adp_loop" /\ ext.i >= 1 /\ ext.i < ext.num_jobs) => on_listing

\* C17: processing one Target makes exactly one page navigation of the session,
\* whichever strategy runs: SELENIUM_PAGE_LOADS equals the number of navigations the
\* session performed, and between two Targets both equal the number of Targets done.
C17_OneNavigationPerTarget ==
    /\ SELENIUM_PAGE_LOADS = page_gets
    /\ pc = "loop" => page_gets = idx

----------------------------------------------------------------------------
(* The ADP link builder of get_links.py on bounded inputs *)

MaxRequests == 2

STR_job_requisitions == <<"j","o","b","-","r","e","q","u","i","s","i","t","i","o","n","s">>
STR_application_json == <<"a","p","p","l","i","c","a","t","i","o","n","/","j","s","o","n">>
ADP_base_url == <<"h","t","t","p","s",":","/","/","w","o","r","k","f","o","r","c","e","n","o","w",".","a","d","p",".","c","o","m","/","m","a","s","c","s","r","/","d","e","f","a","u","l","t","/","m","d","f","/","r","e","c","r","u","i","t","m","e","n","t","/","r","e","c","r","u","i","t","m","e","n","t",".","h","t","m","l">>

\* JSON values: a string, an object (its members in document order), an array, or a
\* null
JStr(chars) == [t |-> "str", s |-> chars, items |-> <<>>]
JNull == [t |-> "null", s |-> <<>>, items |-> <<>>]
JObj(members) == [t |-> "obj", s |-> <<>>, items |-> members]
JList(values) == [t |-> "list", s |-> <<>>, items |-> [i \in DOMAIN values |-> [k |-> "", v |-> values[i]]]]
Member(key, value) == [k |-> key, v |-> value]

\* the bodies a captured response can hold; parses FALSE: the body cannot be
\* decompressed, decoded or parsed
BODY_nested ==
    [parses |-> TRUE,
     data |-> JObj(<<Member("jobs", JList(<<
                  JObj(<<Member("id", JObj(<<Member("stringValue", JStr(<<"J","1">>))>>))>>),
                  JObj(<<Member("id", JObj(<<Member("stringValue", JStr(<<" ","J","2"," ">>))>>))>>)
              >>))>>)]
BODY_blank == [parses |-> TRUE, data |-> JObj(<<Member("stringValue", JStr(<<>>))>>)]
BODY_null_first ==
    [parses |-> TRUE,
     data |-> JObj(<<Member("a", JObj(<<Member("stringValue", JNull)>>)),
                     Member("b", JObj(<<Member("stringValue", JStr(<<"J","3">>))>>))>>)]
BODY_flat ==
    [parses |-> TRUE,
     data |-> JObj(<<Member("stringValue", JStr(<<"J","4">>)),
                     Member("x", JList(<<JObj(<<Member("stringValue", JStr(<<"J","5">>))>>)>>))>>)]
BODY_broken == [parses |-> FALSE, data |-> JNull]

URL_requisitions == <<"h","t","t","p","s",":","/","/","h","/","j","o","b","-","r","e","q","u","i","s","i","t","i","o","n","s","?","x">>
CT_json == <<"a","p","p","l","i","c","a","t","i","o","n","/","j","s","o","n",";"," ","c","h","a","r","s","e","t","=","u","t","f","-","8">>
CT_html == <<"t","e","x","t","/","h","t","m","l">>

\* driver.requests: the requests the throwaway session captured
CapturedRequests ==
    {[has_response |-> TRUE, url |-> URL_requisitions, content_type |-> CT_json, body |-> b] :
         b \in {BODY_nested, BODY_blank, BODY_null_first, BODY_flat, BODY_broken}}
    \cup {[has_response |-> TRUE, url |-> URL_other, content_type |-> CT_json, body |-> BODY_flat],
          [has_response |-> TRUE, url |-> URL_requisitions, content_type |-> CT_html, body |-> BODY_flat],
          [has_response |-> FALSE, url |-> URL_requisitions, content_type |-> CT_json, body |-> BODY_flat]}

\* get_links.py lines 48-56. found: all_string_values so far; raised: an exception is
\* on its way to the except of line 60 (v.strip() on a value that is no string)
RECURSIVE extract_strings(_, _)
RECURSIVE WalkMembers(_, _, _)
extract_strings(obj, st) ==
    IF st.raised THEN st
    ELSE IF obj.t \in {"obj", "list"} THEN WalkMembers(obj.items, obj.t, st)
    ELSE st

WalkMembers(members, t, st) ==
    IF st.raised \/ members = <<>> THEN st
    ELSE LET m == Head(members)
         IN  IF t = "obj" /\ m.k = "stringValue"
             THEN IF m.v.t # "str" THEN [st EXCEPT !.raised = TRUE]
                  ELSE WalkMembers(Tail(members), t,
                           IF Strip(m.v.s) # <<>>
                           THEN [st EXCEPT !.found = Append(@, Strip(m.v.s))]
                           ELSE st)
             ELSE WalkMembers(Tail(members), t, extract_strings(m.v, st))

\* lines 37-61: the loop over the captured requests
RECURSIVE ScanRequests(_, _)
ScanRequests(requests, all_string_values) ==
    IF requests = <<>> THEN all_string_values
    ELSE LET request == Head(requests)
             scanned == /\ request.has_response
                        /\ Contains(request.url, STR_job_requisitions)
                        /\ Contains(request.content_type, STR_application_json)
                        /\ request.body.parses
         IN  ScanRequests(Tail(requests),
                 IF scanned
                 THEN extract_strings(request.body.data,
                                      [found |-> all_string_values, raised |-> FALSE]).found
                 ELSE all_string_values)

\* lines 65-69: the detail link of one job id
AdpJobLink(cid, ccid, job_id) ==
    ADP_base_url \o <<"?","c","i","d","=">> \o cid \o <<"&","c","c","I","d","=">> \o ccid
        \o <<"&","l","a","n","g","=","e","n","_","U","S","&","s","e","l","e","c","t","e","d","M","e","n","u","K","e","y","=","C","a","r","e","e","r","C","e","n","t","e","r","&","j","o","b","I","d","=">> \o job_id

\* get_links.get_adp_job_links, from the captured requests on
get_adp_job_links(requests, cid, ccid) ==
    LET all_string_values == ScanRequests(requests, <<>>)
    IN  [i \in DOMAIN all_string_values |-> AdpJobLink(cid, ccid, all_string_values[i])]

InitLinks ==
    /\ MainIdle
    /\ ret = Pending
    /\ \E requests \in SeqUpTo(CapturedRequests, MaxRequests),
          cid \in {<<"c", "1">>, <<>>}, ccid \in {<<"9">>} :
          args = [fn |-> "get_adp_job_links", requests |-> requests, cid |-> cid,
                  ccid |-> ccid]

CallGetAdpJobLinks ==
    /\ ~ret.done
    /\ args.fn = "get_adp_job_links"
    /\ ret' = [done |-> TRUE,
               value |-> get_adp_job_links(args.requests, args.cid, args.ccid)]
    /\ UNCHANGED <<mainVars, args>>

NextLinks == CallGetAdpJobLinks

SpecLinks == InitLinks /\ [][NextLinks]_vars

LinksDone == args.fn = "get_adp_job_links" /\ ret.done

\* every string stored under a key 'stringValue' anywhere in a JSON value, in document
\* order
RECURSIVE StringValuesOf(_)
RECURSIVE StringValuesOfMembers(_, _)
StringValuesOf(obj) ==
    IF obj.t \in {"obj", "list"} THEN StringValuesOfMembers(obj.items, obj.t) ELSE <<>>

StringValuesOfMembers(members, t) ==
    IF members = <<>> THEN <<>>
    ELSE LET m == Head(members)
         IN  (IF t = "obj" /\ m.k = "stringValue" /\ m.v.t = "str" THEN <<m.v.s>> ELSE <<>>)
                 \o StringValuesOf(m.v)
                 \o StringValuesOfMembers(Tail(members), t)

\* the response is a JSON body of a 'job-requisitions' endpoint that parses
IsRequisitionBody(request) ==
    /\ request.has_response
    /\ IsSubstring(STR_job_requisitions, request.url)
    /\ IsSubstring(STR_application_json, request.content_type)
    /\ request.body.parses

RECURSIVE StringValuesOfAll(_)
StringValuesOfAll(requests) ==
    IF requests = <<>> THEN <<>>
    ELSE (IF IsRequisitionBody(Head(requests))
          THEN StringValuesOf(Head(requests).body.data) ELSE <<>>)
             \o StringValuesOfAll(Tail(requests))

\* C18: the link builder collects every string stored under a key 'stringValue' in
\* every captured 'job-requisitions' JSON body, through nested objects and arrays, and
\* returns one detail link per collected string, in collection order, built from the
\* fixed template with cid, ccid and that string as jobId; a body that does not parse
\* is skipped and the strings of the other bodies are kept.
C18_OneLinkPerStringValue ==
    LinksDone =>
        LET expected == StringValuesOfAll(args.requests)
        IN  /\ Len(ret.value) = Len(expected)
            /\ \A i \in Indices(expected) :
                  ret.value[i] = AdpJobLink(args.cid, args.ccid, expected[i])

----------------------------------------------------------------------------
(* Properties of the batch loop and of the browser session *)

\* the cards of the Targets that returned, one Target after the other
RECURSIVE CardsInOrder(_)
CardsInOrder(entries) ==
    IF entries = <<>> THEN <<>>
    ELSE (IF Head(entries).result = "returned" THEN Head(entries).cards ELSE <<>>)
             \o CardsInOrder(Tail(entries))

\* process_company is running for the Target at position idx + 1
InProcessCompany ==
    pc \in {"select", "paylocity", "adp", "adp_loop", "greenhouse", "validate"}

\* the raw records of the running call that a keyword of its Target matches
MatchedRecords ==
    {k \in Indices(all_job_details) :
        \E j \in Indices(company.keywords) :
            KeywordMatches(company.keywords[j], FullText(all_job_details[k]))}

\* C19: the cards of a batch are the per-Target results concatenated in Target order;
\* the Targets are processed one at a time, Target k+1 only after Target k has
\* returned; within one Target the cards keep the order of the raw records.
C19_CardsInTargetOrder ==
    /\ all_found_jobs = CardsInOrder(handled)
    /\ Len(handled) <= Len(targets)
    /\ \A k \in Indices(handled) :
          handled[k].result = "returned" =>
              \A c \in Indices(handled[k].cards) :
                  handled[k].cards[c].Company = targets[k].company_name
    /\ pc = "loop" => Len(handled) = idx
    /\ InProcessCompany =>
          /\ idx < Len(targets)
          /\ Len(handled) = idx
          /\ \A k \in Indices(handled) : handled[k].result = "returned"
    /\ pc = "validate" =>
          LET cards == company_results
              matched == MatchedRecords
          IN  /\ Len(cards) = Cardinality(matched)
              /\ \A c \in Indices(cards) :
                    LET k == NthOf(matched, c)
                    IN  /\ cards[c].Link_to_Job = all_job_details[k].link
                        /\ cards[c].Job_Title = all_job_details[k].title

\* two Targets have returned cards, and the batch holds those of the first before
\* those of the second
C19_Witness ==
    /\ pc = "done"
    /\ Len(handled) = 2
    /\ handled[1].result = "returned" /\ handled[1].cards # <<>>
    /\ handled[2].result = "returned" /\ handled[2].cards # <<>>
    /\ all_found_jobs = handled[1].cards \o handled[2].cards
    /\ all_found_jobs[1].Company = targets[1].company_name
    /\ all_found_jobs[Len(all_found_jobs)].Company = targets[2].company_name

\* C20: once main has opened the browser session it is closed exactly once on every
\* way out of the Target loop, after the last Target and when a Target raises, and no
\* Target is processed after it is closed.
C20_SessionClosedOnce ==
    /\ quits \in {0, 1}
    /\ pc \in {"done", "crashed"} => quits = 1 /\ ~driver_open
    /\ (InProcessCompany \/ pc \in {"loop", "finally"}) => quits = 0 /\ driver_open
    /\ pc \in {"start", "exit"} => quits = 0 /\ ~driver_open
    /\ pc = "done" => error = NoError /\ idx = Len(targets)
    /\ pc = "crashed" => error # NoError

\* a Target raised while another was still to come, and the session was closed once
C20_Witness ==
    /\ pc = "crashed"
    /\ idx + 1 < Len(targets)
    /\ quits = 1
    /\ ~driver_open

====
